---- MODULE Spec2Model ----
(***************************************************************************)
(* Trade settlement engine of pineapple-donut: the Lambda handlers         *)
(* handlers/trades/{create,accept,reject,cancel}.ts over the helpers of    *)
(* functions/trades.ts and the DynamoDB tables Items and Trades.           *)
(*                                                                         *)
(* Every request is one Lambda invocation.  An invocation yields at every  *)
(* `await`; the DynamoDB calls it has issued (one GetItem/UpdateItem/Scan  *)
(* each) then take effect one at a time, in any order, interleaved with    *)
(* the calls of the other invocations.  Spec lets invocations overlap;     *)
(* SeqSpec admits a request only when no other one is in flight.           *)
(*                                                                         *)
(* The item roller (functions/items.ts), the scan handler that calls it    *)
(* (handlers/scan/process.ts) and the seeder's assignSessionChances and    *)
(* generateCollectables are modelled too, over floating-point numbers of   *)
(* reduced width.  ScanSpec serves scans among the trade requests, one at  *)
(* a time; GenSpec runs the seeder's functions on their own.               *)
(*                                                                         *)
(* FailSpec serves the trade requests one at a time over a store whose     *)
(* updates may fail.  AuthSpec runs the signup handler (registerPlayer of  *)
(* functions/auth.ts over the Players table), invocations overlapping.     *)
(*                                                                         *)
(* Ids: a trade's id is its index in `trades` (randomUUID never repeats).  *)
(* Id lists are modelled as sets: the code only uses them through          *)
(* every/some/includes/map, which are insensitive to order and repeats.    *)
(***************************************************************************)
EXTENDS Integers, FiniteSets, Sequences, TLC

\* ---------------------------------------------------------------- bounds
MaxTrades == 2          \* Trade records that may be created
MaxTime   == 2          \* ticks of the wall clock (new Date())
MaxTiers  == 2          \* tiers of a list whose draws are all tried
MaxExtra  == 2          \* collectables asked for beyond one per tier
MaxPlayers == 3         \* Player records that may be put

Players == {"P1", "P2", "P3"}
ItemIds == {"i1", "i2", "i3", "i4"}
Reqs    == {1, 2}            \* concurrent Lambda invocations

NoItem   == "none"      \* Dynamodb.get returned null
NoPlayer == "none"
NoTime   == 0           \* resolvedAt absent

\* ---------------------------------------------------------- TradeStatus
PENDING   == "pending"
COMPLETED == "completed"
REJECTED  == "rejected"
CANCELLED == "cancelled"
TradeStatus == {PENDING, COMPLETED, REJECTED, CANCELLED}
Terminal == {COMPLETED, REJECTED, CANCELLED}

\* Request bodies clients send to POST /trade/create (the caller, then the
\* body's toPlayerId, offeredItemIds, requestedItemIds).  shape tells what
\* parseBody found: "ok" when both lists are arrays, "notArray" when one is
\* some other truthy value, "missing" when a required field is absent.
\* With the seeded inventory of Init: a swap of i1 for i2; a gift of i3,
\* disjoint from the swap; an offer of i2 that asks for i3 and for i4,
\* which does not exist; a self-trade; an offer with both lists empty; one
\* whose offeredItemIds is no array; one without requestedItemIds.
Body(from, to, offered, requested, shape) ==
  [fromPlayerId |-> from, toPlayerId |-> to, offeredItemIds |-> offered,
   requestedItemIds |-> requested, shape |-> shape]

NoBody == Body(NoPlayer, NoPlayer, {}, {}, "none")

Offers ==
  { Body("P1", "P2", {"i1"}, {"i2"}, "ok"),
    Body("P1", "P2", {"i3"}, {}, "ok"),
    Body("P2", "P1", {"i2"}, {"i3", "i4"}, "ok"),
    Body("P1", "P1", {"i1"}, {"i3"}, "ok"),
    Body("P2", "P1", {}, {}, "ok"),
    Body("P1", "P2", {}, {"i2"}, "notArray"),
    Body("P2", "P1", {"i2"}, {}, "missing") }

VARIABLES
  items,      \* Items table: item id -> playerId of its owner, or NoItem
  trades,     \* Trades table: sequence of Trade records, id = index
  now,        \* wall clock read by new Date()
  reqs,       \* per invocation: the handler's position and locals
  last,       \* the latest request, when it ran alone: the tables as it
              \* found them and, once it has returned, its response
  coPending,  \* pairs of trade ids that were PENDING at the same time
  gen,        \* the latest run of the rolling code, until it is looked at:
              \* what it was given and what it returned
  players,    \* Players table: the Player records put
  signups     \* per invocation: the signup handler's position, locals
              \* and latest response

vars == <<items, trades, now, reqs, last, coPending, gen, players, signups>>

TradeIds == 1..MaxTrades

\* An HTTP response: status code, which error it is, and (for the
\* "Trade is <status>, not pending" message) the status it names.
Resp(code, err, st) == [code |-> code, error |-> err, status |-> st]
NoResp == Resp(0, "none", "none")

NoLast ==
  [req |-> 0, op |-> "none", caller |-> NoPlayer, tid |-> 0, resp |-> NoResp,
   items |-> <<>>, trades |-> <<>>, body |-> NoBody]

NoGen == [fn |-> "none"]

IdleReq ==
  [op |-> "none", caller |-> NoPlayer, tid |-> 0, pc |-> "idle",
   itemWrites |-> {}, tradeWrites |-> {}, stamp |-> NoTime]

InFlight(r) == reqs[r].pc # "idle"

\* A request is admitted on the first free invocation, once the response
\* recorded in `last` has been handed to its client; when seq, only if no
\* other invocation is still running.
Admit(r, seq) ==
  /\ ~InFlight(r)
  /\ last.resp = NoResp
  /\ \A q \in Reqs : ~InFlight(q) => r <= q
  /\ seq => \A q \in Reqs : ~InFlight(q)

\* A request arrives at invocation r; res is NoResp until it returns.
\* Only a request that meets no other invocation in flight is recorded.
Arrival(r, op, caller, tradeId, res) ==
  IF \E q \in Reqs : InFlight(q) THEN NoLast ELSE
  [req |-> r, op |-> op, caller |-> caller, tid |-> tradeId, resp |-> res,
   items |-> items, trades |-> trades, body |-> NoBody]

\* the recorded request came with this body
WithBody(l, body) == IF l = NoLast THEN l ELSE [l EXCEPT !.body = body]

\* invocation r returns res
Return(r, res) ==
  last' = IF last.req = r THEN [last EXCEPT !.resp = res] ELSE last

\* ------------------------------------------------- functions/trades.ts

\* getTrade: the record, looked up by id
getTrade(tradeId) == trades[tradeId]

TradeExists(tradeId) == tradeId \in DOMAIN trades

\* newTrade with the two parties exchanged
newTrade_swapped(trade) ==
  [fromPlayerId |-> trade.toPlayerId, toPlayerId |-> trade.fromPlayerId,
   offeredItemIds |-> trade.offeredItemIds,
   requestedItemIds |-> trade.requestedItemIds,
   status |-> PENDING, resolvedAt |-> NoTime]

\* createTrade: the record put into Trades
newTrade(trade) ==
  [fromPlayerId |-> trade.fromPlayerId, toPlayerId |-> trade.toPlayerId,
   offeredItemIds |-> trade.offeredItemIds,
   requestedItemIds |-> trade.requestedItemIds,
   status |-> PENDING, resolvedAt |-> NoTime]

\* updateTradeStatus that sets the status alone
updateTradeStatus_statusOnly(tbl, tradeId, status, resolvedAt) ==
  [tbl EXCEPT ![tradeId].status = status]

\* updateTradeStatus: SET #status = :status, resolvedAt = :resolvedAt
updateTradeStatus(tbl, tradeId, status, resolvedAt) ==
  [tbl EXCEPT ![tradeId].status = status, ![tradeId].resolvedAt = resolvedAt]

\* itemsBelongToPlayer without the existence test (!!item)
itemsBelongToPlayer_noExistence(itemIds, expectedPlayerId) ==
  IF itemIds = {} THEN TRUE
  ELSE \A itemId \in itemIds :
         items[itemId] = NoItem \/ items[itemId] = expectedPlayerId

\* itemsBelongToPlayer: every item exists and is owned by expectedPlayerId
itemsBelongToPlayer(itemIds, expectedPlayerId) ==
  IF itemIds = {} THEN TRUE
  ELSE \A itemId \in itemIds :
         items[itemId] # NoItem /\ items[itemId] = expectedPlayerId

\* findConflictingTrades looking at the offered lists only
findConflictingTrades_offeredOnly(excludeTradeId, itemIds) ==
  { t \in DOMAIN trades :
      /\ t # excludeTradeId
      /\ trades[t].status = PENDING
      /\ \E iid \in trades[t].offeredItemIds : iid \in itemIds }

\* findConflictingTrades: ids of the other PENDING trades listing an item
findConflictingTrades(excludeTradeId, itemIds) ==
  { t \in DOMAIN trades :
      /\ t # excludeTradeId
      /\ trades[t].status = PENDING
      /\ \/ \E iid \in trades[t].offeredItemIds : iid \in itemIds
         \/ \E iid \in trades[t].requestedItemIds : iid \in itemIds }

\* transferItemOwnership: one UpdateItem per item, SET playerId = :newOwner
transferItemOwnership(itemIds, toPlayerId) ==
  { <<itemId, toPlayerId>> : itemId \in itemIds }

\* ------------------------------------------- handlers/trades/create.ts

\* createValidate without the self-trade check
createValidate_noSelf(caller, body) ==
  IF body.toPlayerId = NoPlayer \/ body.shape = "missing"
    THEN Resp(400, "required", "none")
  ELSE IF body.shape = "notArray" THEN Resp(400, "arrays", "none")
  ELSE IF body.offeredItemIds = {} /\ body.requestedItemIds = {}
    THEN Resp(400, "empty", "none")
  ELSE Resp(201, "ok", "none")

\* the handler's checks on the parsed body, in order; "ok" when they pass
createValidate(caller, body) ==
  IF body.toPlayerId = NoPlayer \/ body.shape = "missing"
    THEN Resp(400, "required", "none")
  ELSE IF body.shape = "notArray" THEN Resp(400, "arrays", "none")
  ELSE IF body.offeredItemIds = {} /\ body.requestedItemIds = {}
    THEN Resp(400, "empty", "none")
  ELSE IF body.toPlayerId = caller THEN Resp(400, "self", "none")
  ELSE Resp(201, "ok", "none")

\* POST /trade/create: validate, then put the new PENDING trade
CreateHandler(r, body) ==
  LET caller == body.fromPlayerId
      res == createValidate(caller, body)
      id == Len(trades) + 1
  IN /\ res.code = 201 => Len(trades) < MaxTrades
     /\ IF res.code = 201
          THEN /\ trades' = Append(trades, newTrade(body))
               /\ coPending' = coPending \cup
                     { {t, id} : t \in { u \in DOMAIN trades : trades[u].status = PENDING } }
               /\ last' = WithBody(Arrival(r, "create", caller, id, res), body)
          ELSE /\ UNCHANGED <<trades, coPending>>
               /\ last' = WithBody(Arrival(r, "create", caller, 0, res), body)
     /\ gen' = NoGen
     /\ UNCHANGED <<items, now, reqs, players, signups>>

\* ------------------------------------------- handlers/trades/accept.ts

\* acceptValidate without the check of the recipient
acceptValidate_anyCaller(caller, tradeId) ==
  IF ~TradeExists(tradeId) THEN Resp(404, "Trade not found", "none")
  ELSE IF getTrade(tradeId).status # PENDING
    THEN Resp(400, "not pending", getTrade(tradeId).status)
  ELSE Resp(200, "ok", "none")

\* step 1 of accept: the trade exists, is addressed to the caller, is PENDING
acceptValidate(caller, tradeId) ==
  IF ~TradeExists(tradeId) THEN Resp(404, "Trade not found", "none")
  ELSE IF getTrade(tradeId).toPlayerId # caller THEN Resp(403, "forbidden", "none")
  ELSE IF getTrade(tradeId).status # PENDING
    THEN Resp(400, "not pending", getTrade(tradeId).status)
  ELSE Resp(200, "ok", "none")

\* acceptItemWrites handing the requested items to the caller as well
acceptItemWrites_allToCaller(trade, caller) ==
  transferItemOwnership(trade.offeredItemIds, caller)
    \cup transferItemOwnership(trade.requestedItemIds, caller)

\* the three updates accept issues together in Promise.all
acceptItemWrites(trade, caller) ==
  transferItemOwnership(trade.offeredItemIds, caller)
    \cup transferItemOwnership(trade.requestedItemIds, trade.fromPlayerId)

acceptTradeWrites(tradeId) == { <<tradeId, COMPLETED>> }

\* movedItemIds = [...offeredItemIds, ...requestedItemIds]
movedItemIds(trade) == trade.offeredItemIds \cup trade.requestedItemIds

\* the status conflict cancellation writes
conflictWrites(conflicts) == { <<c, CANCELLED>> : c \in conflicts }

\* POST /trade/{tradeId}/accept, up to the first await's result
AcceptGetTrade(r, caller, tradeId) ==
  LET res == acceptValidate(caller, tradeId)
      req == [IdleReq EXCEPT !.op = "accept", !.caller = caller, !.tid = tradeId]
  IN /\ IF res.code = 200
          THEN /\ reqs' = [reqs EXCEPT ![r] = [req EXCEPT !.pc = "offered"]]
               /\ last' = Arrival(r, "accept", caller, tradeId, NoResp)
          ELSE /\ last' = Arrival(r, "accept", caller, tradeId, res)
               /\ UNCHANGED reqs
     /\ gen' = NoGen
     /\ UNCHANGED <<items, trades, now, coPending, players, signups>>

\* await itemsBelongToPlayer(trade.offeredItemIds, trade.fromPlayerId)
AcceptOfferedOwned(r) ==
  LET trade == getTrade(reqs[r].tid)
  IN /\ reqs[r].pc = "offered"
     /\ IF itemsBelongToPlayer(trade.offeredItemIds, trade.fromPlayerId)
          THEN reqs' = [reqs EXCEPT ![r].pc = "requested"] /\ UNCHANGED last
          ELSE /\ Return(r, Resp(400, "offered not owned", "none"))
               /\ reqs' = [reqs EXCEPT ![r] = IdleReq]
     /\ UNCHANGED <<items, trades, now, coPending, gen, players, signups>>

\* await itemsBelongToPlayer(trade.requestedItemIds, trade.toPlayerId),
\* then the Promise.all of step 3 is issued (new Date() is read here)
AcceptRequestedOwned(r) ==
  LET trade == getTrade(reqs[r].tid)
  IN /\ reqs[r].pc = "requested"
     /\ IF itemsBelongToPlayer(trade.requestedItemIds, trade.toPlayerId)
          THEN /\ reqs' = [reqs EXCEPT ![r] = [reqs[r] EXCEPT !.pc = "transfer",
                              !.itemWrites = acceptItemWrites(trade, reqs[r].caller),
                              !.tradeWrites = acceptTradeWrites(reqs[r].tid),
                              !.stamp = now]]
               /\ UNCHANGED last
          ELSE /\ Return(r, Resp(400, "requested not owned", "none"))
               /\ reqs' = [reqs EXCEPT ![r] = IdleReq]
     /\ UNCHANGED <<items, trades, now, coPending, gen, players, signups>>

\* step 4: the scan of findConflictingTrades, then one CANCELLED update
\* per conflict is issued; with no conflict the handler returns success
AcceptFindConflicts(r) ==
  LET moved == movedItemIds(getTrade(reqs[r].tid))
      conflicts == IF moved # {} THEN findConflictingTrades(reqs[r].tid, moved) ELSE {}
  IN /\ reqs[r].pc = "conflicts"
     /\ IF conflicts = {}
          THEN /\ Return(r, Resp(200, "ok", "none"))
               /\ reqs' = [reqs EXCEPT ![r] = IdleReq]
          ELSE /\ reqs' = [reqs EXCEPT ![r] = [reqs[r] EXCEPT !.pc = "cancelling",
                              !.tradeWrites = conflictWrites(conflicts), !.stamp = now]]
               /\ UNCHANGED last
     /\ UNCHANGED <<items, trades, now, coPending, gen, players, signups>>

\* ------------------------------------------- handlers/trades/reject.ts

\* rejectValidate answering a missing trade as one of somebody else
rejectValidate_missingForbidden(caller, tradeId) ==
  IF ~TradeExists(tradeId) THEN Resp(403, "forbidden", "none")
  ELSE IF caller # getTrade(tradeId).toPlayerId THEN Resp(403, "forbidden", "none")
  ELSE IF getTrade(tradeId).status # PENDING
    THEN Resp(400, "not pending", getTrade(tradeId).status)
  ELSE Resp(200, "ok", "none")

\* the trade exists, is addressed to the caller, is PENDING
rejectValidate(caller, tradeId) ==
  IF ~TradeExists(tradeId) THEN Resp(404, "Trade not found", "none")
  ELSE IF caller # getTrade(tradeId).toPlayerId THEN Resp(403, "forbidden", "none")
  ELSE IF getTrade(tradeId).status # PENDING
    THEN Resp(400, "not pending", getTrade(tradeId).status)
  ELSE Resp(200, "ok", "none")

\* rejectTradeWrites with the status of a cancellation
rejectTradeWrites_cancelled(tradeId) == { <<tradeId, CANCELLED>> }

\* the update reject issues
rejectTradeWrites(tradeId) == { <<tradeId, REJECTED>> }

\* POST /trade/{id}/reject up to the issue of updateTradeStatus
RejectGetTrade(r, caller, tradeId) ==
  LET res == rejectValidate(caller, tradeId)
      req == [IdleReq EXCEPT !.op = "reject", !.caller = caller, !.tid = tradeId]
  IN /\ IF res.code = 200
          THEN /\ reqs' = [reqs EXCEPT ![r] = [req EXCEPT !.pc = "write",
                              !.tradeWrites = rejectTradeWrites(tradeId), !.stamp = now]]
               /\ last' = Arrival(r, "reject", caller, tradeId, NoResp)
          ELSE /\ last' = Arrival(r, "reject", caller, tradeId, res)
               /\ UNCHANGED reqs
     /\ gen' = NoGen
     /\ UNCHANGED <<items, trades, now, coPending, players, signups>>

\* ------------------------------------------- handlers/trades/cancel.ts

\* the trade exists and was created by the caller
cancelValidate(caller, tradeId) ==
  IF ~TradeExists(tradeId) THEN Resp(404, "Trade not found", "none")
  ELSE IF caller # getTrade(tradeId).fromPlayerId THEN Resp(403, "forbidden", "none")
  ELSE Resp(200, "ok", "none")

\* the update cancel issues
cancelTradeWrites(tradeId) == { <<tradeId, REJECTED>> }

\* POST /trade/{id}/cancel up to the issue of updateTradeStatus
CancelGetTrade(r, caller, tradeId) ==
  LET res == cancelValidate(caller, tradeId)
      req == [IdleReq EXCEPT !.op = "cancel", !.caller = caller, !.tid = tradeId]
  IN /\ IF res.code = 200
          THEN /\ reqs' = [reqs EXCEPT ![r] = [req EXCEPT !.pc = "write",
                              !.tradeWrites = cancelTradeWrites(tradeId), !.stamp = now]]
               /\ last' = Arrival(r, "cancel", caller, tradeId, NoResp)
          ELSE /\ last' = Arrival(r, "cancel", caller, tradeId, res)
               /\ UNCHANGED reqs
     /\ gen' = NoGen
     /\ UNCHANGED <<items, trades, now, coPending, players, signups>>

\* --------------------------------------------- lib/dynamodb.ts update

\* Settle going on to step 4 once the status update is back
Settle_statusOnly(r, iw, tw) ==
  IF tw # {}
  THEN reqs' = [reqs EXCEPT ![r].itemWrites = iw, ![r].tradeWrites = tw]
         /\ UNCHANGED last
  ELSE IF reqs[r].pc = "transfer"
  THEN reqs' = [reqs EXCEPT ![r] = [reqs[r] EXCEPT !.pc = "conflicts",
                  !.itemWrites = iw, !.tradeWrites = {}, !.stamp = NoTime]]
         /\ UNCHANGED last
  ELSE IF reqs[r].pc = "returned"
  THEN reqs' = [reqs EXCEPT ![r] = IdleReq]
         /\ UNCHANGED last
  ELSE reqs' = [reqs EXCEPT ![r] = IdleReq]
         /\ Return(r, Resp(200, "ok", "none"))

\* One update of a Promise.all is back, iw and tw are still out.  Once
\* all are back accept goes on to step 4; reject, cancel and the conflict
\* cancellation of accept return success.
Settle(r, iw, tw) ==
  IF iw # {} \/ tw # {}
  THEN reqs' = [reqs EXCEPT ![r].itemWrites = iw, ![r].tradeWrites = tw]
         /\ UNCHANGED last
  ELSE IF reqs[r].pc = "transfer"
  THEN reqs' = [reqs EXCEPT ![r] = [reqs[r] EXCEPT !.pc = "conflicts",
                  !.itemWrites = {}, !.tradeWrites = {}, !.stamp = NoTime]]
         /\ UNCHANGED last
  ELSE IF reqs[r].pc = "returned"
  THEN reqs' = [reqs EXCEPT ![r] = IdleReq]
         /\ UNCHANGED last
  ELSE reqs' = [reqs EXCEPT ![r] = IdleReq]
         /\ Return(r, Resp(200, "ok", "none"))

\* one UpdateItem on Items takes effect
UpdateItem(r, w) ==
  /\ InFlight(r)
  /\ w \in reqs[r].itemWrites
  /\ items' = [items EXCEPT ![w[1]] = w[2]]
  /\ Settle(r, reqs[r].itemWrites \ {w}, reqs[r].tradeWrites)
  /\ UNCHANGED <<trades, now, coPending, gen, players, signups>>

\* one UpdateItem on Trades takes effect
UpdateTrade(r, w) ==
  /\ InFlight(r)
  /\ w \in reqs[r].tradeWrites
  /\ trades' = updateTradeStatus(trades, w[1], w[2], reqs[r].stamp)
  /\ Settle(r, reqs[r].itemWrites, reqs[r].tradeWrites \ {w})
  /\ UNCHANGED <<items, now, coPending, gen, players, signups>>

\* An UpdateItem is rejected with iw and tw still out: the Promise.all it
\* belongs to rejects at once and the handler answers 500 with the
\* message of the error (the model tells the errors of step 3 of accept
\* from the others); the updates still out stay out.  A rejection after
\* the handler has returned goes unnoticed.
Rejected(r, iw, tw) ==
  /\ reqs' = [reqs EXCEPT ![r] =
        IF iw = {} /\ tw = {} THEN IdleReq
        ELSE [reqs[r] EXCEPT !.pc = "returned", !.itemWrites = iw,
                             !.tradeWrites = tw]]
  /\ IF reqs[r].pc = "returned" THEN UNCHANGED last
     ELSE Return(r, Resp(500, IF reqs[r].pc = "transfer" THEN "settlement failed"
                              ELSE "update failed", "none"))

\* one UpdateItem on Items fails
FailItem(r, w) ==
  /\ InFlight(r)
  /\ w \in reqs[r].itemWrites
  /\ Rejected(r, reqs[r].itemWrites \ {w}, reqs[r].tradeWrites)
  /\ UNCHANGED <<items, trades, now, coPending, gen, players, signups>>

\* one UpdateItem on Trades fails
FailTrade(r, w) ==
  /\ InFlight(r)
  /\ w \in reqs[r].tradeWrites
  /\ Rejected(r, reqs[r].itemWrites, reqs[r].tradeWrites \ {w})
  /\ UNCHANGED <<items, trades, now, coPending, gen, players, signups>>

\* the recorded response goes out to the client
Deliver ==
  /\ last.resp # NoResp
  /\ last' = NoLast
  /\ gen' = NoGen
  /\ UNCHANGED <<items, trades, now, reqs, coPending, players, signups>>

\* ------------------------------------------------------------ the clock
\* The clock is seen only through the stamps taken from it, so an instant
\* is let pass only once it has been used as a stamp.
Stamped(t) ==
  \/ \E id \in DOMAIN trades : trades[id].resolvedAt = t
  \/ \E r \in Reqs : reqs[r].stamp = t

Tick ==
  /\ now < MaxTime
  /\ Stamped(now)
  /\ now' = now + 1
  /\ UNCHANGED <<items, trades, reqs, last, coPending, gen, players, signups>>


\* ---------------------------------------------------------------- numbers
\* The numbers of the rolling code are binary floating-point numbers, and
\* its results depend on how each operation rounds.  The model keeps the
\* IEEE-754 rules (every operation rounds its exact result to the nearest
\* number, ties to even) at a reduced width: Precision significant bits
\* where the source has 53.  A number is m * 2^e with 2^(Precision-1) <=
\* |m| < 2^Precision, or zero; the exponent is not bounded.
Precision == 10

Num(m, e) == [m |-> m, e |-> e]
Zero == Num(0, 0)

Max(a, b) == IF a >= b THEN a ELSE b
Min(a, b) == IF a <= b THEN a ELSE b
Abs(a) == IF a < 0 THEN 0 - a ELSE a

RECURSIVE BitLen(_)
BitLen(n) == IF n = 0 THEN 0 ELSE 1 + BitLen(n \div 2)

\* n / 2^q rounded to the nearest integer, ties to even (n >= 0, q >= 1)
RoundShift(n, q) ==
  LET d == 2^q
      f == n \div d
      rem == n % d
  IN IF 2 * rem > d \/ (2 * rem = d /\ f % 2 = 1) THEN f + 1 ELSE f

\* the number nearest to n * 2^e, for an integer n >= 0
Norm(n, e) ==
  IF n = 0 THEN Zero
  ELSE LET q == BitLen(n) - Precision
       IN IF q <= 0 THEN Num(n * 2^(0 - q), e + q)
          ELSE LET r == RoundShift(n, q)
               IN IF r = 2^Precision THEN Num(2^(Precision - 1), e + q + 1)
                  ELSE Num(r, e + q)

Neg(a) == Num(0 - a.m, a.e)

\* the same for an integer of either sign
Fl(n, e) == IF n < 0 THEN Neg(Norm(0 - n, e)) ELSE Norm(n, e)

\* the integer k as a number
FromInt(k) == Fl(k, 0)

\* a + b; an operand below an eighth of the other's last place is absorbed
FAdd(a, b) ==
  IF a.m = 0 THEN b
  ELSE IF b.m = 0 THEN a
  ELSE IF a.e - b.e > Precision + 2 THEN a
  ELSE IF b.e - a.e > Precision + 2 THEN b
  ELSE LET e == Min(a.e, b.e)
       IN Fl(a.m * 2^(a.e - e) + b.m * 2^(b.e - e), e)

FSub(a, b) == FAdd(a, Neg(b))

FMul(a, b) == Fl(a.m * b.m, a.e + b.e)

\* long division, one bit of the quotient at a time, until the quotient q
\* has two bits more than a number holds; r is the remainder
RECURSIVE DivStep(_, _, _, _)
DivStep(q, r, d, e) ==
  IF BitLen(q) >= Precision + 2 THEN <<q, r, e>>
  ELSE IF 2 * r >= d THEN DivStep(2 * q + 1, 2 * r - d, d, e - 1)
  ELSE DivStep(2 * q, 2 * r, d, e - 1)

\* the number nearest to (n / d) * 2^e, for integers n >= 0 and d > 0
Quot(n, d, e) ==
  IF n = 0 THEN Zero
  ELSE LET s == DivStep(n \div d, n % d, d, e)
       IN Norm(2 * s[1] + (IF s[2] = 0 THEN 0 ELSE 1), s[3] - 1)

FDiv(a, b) ==
  IF (a.m < 0) = (b.m < 0) THEN Quot(Abs(a.m), Abs(b.m), a.e - b.e)
  ELSE Neg(Quot(Abs(a.m), Abs(b.m), a.e - b.e))

\* the decimal literal n / d of the source, read as the nearest number
Dec(n, d) == Quot(n, d, 0)

\* a <= b, a < b, Math.min, Math.max
Leq(a, b) == FSub(a, b).m <= 0
Less(a, b) == FSub(a, b).m < 0
FMin(a, b) == IF Leq(a, b) THEN a ELSE b
FMax(a, b) == IF Leq(a, b) THEN b ELSE a

\* Math.floor of a number that is not negative, as an integer
Floor(a) ==
  IF a.e >= 0 THEN a.m * 2^a.e
  ELSE IF 0 - a.e > 30 THEN 0
  ELSE a.m \div 2^(0 - a.e)

\* Number(x.toFixed(digits)): x rounded to that many decimals (ties up) and
\* read back as the nearest number.  When the last place of x is above
\* 10^-digits the rounding moves x by less than half of that place, and
\* reading back returns x.
toFixed(x, digits) ==
  IF x.m = 0 \/ x.e >= 0 - 3 * digits THEN x
  ELSE LET p == 10^digits
           k == IF 0 - x.e > 30 THEN 0
                ELSE (2 * Abs(x.m) * p + 2^(0 - x.e)) \div 2^(1 - x.e)
       IN IF x.m < 0 THEN Neg(Dec(k, p)) ELSE Dec(k, p)

\* ------------------------------------------------- functions/rarities.ts
Rarity(id, name, minChance, maxChance) ==
  [id |-> id, name |-> name, minChance |-> minChance, maxChance |-> maxChance]

\* the table the scan handler and the seeder import
rarityTiers ==
  <<
     Rarity(0, "Common", Dec(22, 100), Dec(28, 100)),
     Rarity(1, "Uncommon", Dec(18, 100), Dec(23, 100)),
     Rarity(2, "Rare", Dec(13, 100), Dec(17, 100)),
     Rarity(3, "Epic", Dec(9, 100), Dec(13, 100)),
     Rarity(4, "Legendary", Dec(6, 100), Dec(9, 100)),
     Rarity(5, "Fabled", Dec(3, 100), Dec(6, 100)),
     Rarity(6, "Mythic", Dec(13, 1000), Dec(3, 100)),
     Rarity(7, "Divine", Dec(6, 1000), Dec(13, 1000)),
     Rarity(8, "Astral", Dec(1, 1000), Dec(3, 1000)),
     Rarity(9, "Celestial", Dec(6, 10000), Dec(15, 10000)),
     Rarity(10, "Transcendent", Dec(3, 10000), Dec(65, 100000)),
     Rarity(11, "Ethereal", Dec(14, 100000), Dec(32, 100000)),
     Rarity(12, "Primordial", Dec(6, 100000), Dec(15, 100000)),
     Rarity(13, "Arcane", Dec(25, 1000000), Dec(65, 1000000))
  >>

\* -------------------------------------------------------- data/rarity.ts
\* the longer table of data/rarity.ts, also called rarityTiers there
dataRarityTiers ==
  <<
     Rarity(0, "Common", Dec(18, 100), Dec(25, 100)),
     Rarity(1, "Uncommon", Dec(14, 100), Dec(2, 10)),
     Rarity(2, "Rare", Dec(9, 100), Dec(15, 100)),
     Rarity(3, "Epic", Dec(6, 100), Dec(12, 100)),
     Rarity(4, "Legendary", Dec(4, 100), Dec(9, 100)),
     Rarity(5, "Fabled", Dec(3, 100), Dec(7, 100)),
     Rarity(6, "Mythic", Dec(2, 100), Dec(6, 100)),
     Rarity(7, "Divine", Dec(15, 1000), Dec(5, 100)),
     Rarity(8, "Astral", Dec(1, 100), Dec(4, 100)),
     Rarity(9, "Celestial", Dec(8, 1000), Dec(35, 1000)),
     Rarity(10, "Transcendent", Dec(7, 1000), Dec(3, 100)),
     Rarity(11, "Empyrean", Dec(5, 1000), Dec(25, 1000)),
     Rarity(12, "Ethereal", Dec(4, 1000), Dec(2, 100)),
     Rarity(13, "Primordial", Dec(25, 10000), Dec(15, 1000)),
     Rarity(14, "Void", Dec(18, 10000), Dec(12, 1000)),
     Rarity(15, "Arcane", Dec(14, 10000), Dec(1, 100)),
     Rarity(16, "Cosmic", Dec(1, 1000), Dec(8, 1000)),
     Rarity(17, "Omnipotent", Dec(5, 10000), Dec(5, 1000)),
     Rarity(18, "Infinite", Dec(3, 10000), Dec(3, 1000)),
     Rarity(19, "Quantum", Dec(1, 10000), Dec(1, 1000)),
     Rarity(20, "Singularity", Dec(25, 1000000), Dec(2, 10000)),
     Rarity(21, "Universal", Dec(6, 1000000), Dec(8, 100000)),
     Rarity(22, "Omniversal", Dec(1, 1000000), Dec(1, 100000)),
     Rarity(23, "Apocryphal", Dec(1, 10000000), Dec(1, 1000000))
  >>

\* Math.random(): a number of [0, 1).  The draws tried are the smallest,
\* the middle and the largest one.
One == FromInt(1)
Draws == { Zero, Dec(1, 2), Num(2^Precision - 1, 0 - Precision) }

\* rarities.find((r) => r.id === id): its index, 0 when there is none
FindRarity(rarities, id) ==
  LET found == { i \in 1..Len(rarities) : rarities[i].id = id }
  IN IF found = {} THEN 0 ELSE CHOOSE i \in found : \A j \in found : i <= j

\* ns.reduce((a, b) => a + b, 0)
RECURSIVE SumTo(_, _)
SumTo(ns, k) == IF k = 0 THEN Zero ELSE FAdd(SumTo(ns, k - 1), ns[k])
Sum(ns) == SumTo(ns, Len(ns))

\* ------------------------------------------------------ functions/items.ts

\* rollQuality without the + 1
rollQuality_noPlusOne(p) ==
  LET quality == Floor(FMul(FromInt(100), p))
  IN Min(quality, 100)

\* rollQuality; p is Math.pow(x, expFactor) for the draw x, a number of
\* [0, 1]
rollQuality(p) ==
  LET quality == Floor(FMul(FromInt(100), p)) + 1
  IN Min(quality, 100)

\* calcChance, with its two draws
calcChance(rarity, quality, u1, u2) ==
  LET scaledQuality ==
        FMin(One, FMax(Zero, FDiv(FAdd(FromInt(quality), u1), FromInt(101))))
      range == FSub(rarity.maxChance, rarity.minChance)
      baseChance == FAdd(rarity.minChance, FMul(range, scaledQuality))
      maxNoise == FSub(rarity.maxChance, baseChance)
      noise == FMul(u2, FMin(maxNoise, FMul(range, Dec(1, 100000000))))
      chance == FAdd(baseChance, noise)
  IN toFixed(chance, 18)

computeCollectableWeight(rarity) ==
  FDiv(FAdd(rarity.minChance, rarity.maxChance), FromInt(2))

\* the loop of rollCollectable from index i on, r being what is left of
\* the draw; 0 when the loop ends without a pick
RECURSIVE rollLoop(_, _, _)
rollLoop(normalized, i, r) ==
  IF i > Len(normalized) THEN 0
  ELSE LET left == FSub(r, normalized[i])
       IN IF Leq(left, Zero) THEN i ELSE rollLoop(normalized, i + 1, left)

\* rollCollectable falling back to the last collectable
rollCollectable_lastFallback(collectables, rarities, u, uf) ==
  LET weights == [i \in 1..Len(collectables) |->
                    LET k == FindRarity(rarities, collectables[i].rarity)
                    IN IF k = 0 THEN One ELSE computeCollectableWeight(rarities[k])]
      totalWeight == Sum(weights)
      normalized == [i \in 1..Len(collectables) |-> FDiv(weights[i], totalWeight)]
      picked == rollLoop(normalized, 1, u)
  IN IF picked # 0 THEN picked ELSE Len(collectables)

\* rollCollectable: the index of the collectable picked by the draw u, or
\* by the fallback draw uf when rounding leaves the loop without a pick
rollCollectable(collectables, rarities, u, uf) ==
  LET weights == [i \in 1..Len(collectables) |->
                    LET k == FindRarity(rarities, collectables[i].rarity)
                    IN IF k = 0 THEN One ELSE computeCollectableWeight(rarities[k])]
      totalWeight == Sum(weights)
      normalized == [i \in 1..Len(collectables) |-> FDiv(weights[i], totalWeight)]
      picked == rollLoop(normalized, 1, u)
  IN IF picked # 0 THEN picked
     ELSE Floor(FMul(uf, FromInt(Len(collectables)))) + 1

Thrown(message) == [ok |-> FALSE, error |-> message]
Returned(value) == [ok |-> TRUE, value |-> value]

\* generateItem that goes on without a rarity, with chance 0
generateItem_defaultChance(playerId, collectables, rarities, foundAt, id, u) ==
  IF Len(collectables) = 0 THEN Thrown("No collectables provided")
  ELSE
    LET collectable == collectables[rollCollectable(collectables, rarities, u.c, u.cf)]
        k == FindRarity(rarities, collectable.rarity)
        quality == rollQuality(u.q)
    IN Returned([id |-> id, collectableId |-> collectable.id,
                 playerId |-> playerId, quality |-> quality,
                 chance |-> IF k = 0 THEN Zero
                            ELSE calcChance(rarities[k], quality, u.s, u.n),
                 foundAt |-> foundAt])

\* generateItem; id is the randomUUID() it draws and u its random draws:
\* c and cf for rollCollectable, q for rollQuality, s and n for calcChance
generateItem(playerId, collectables, rarities, foundAt, id, u) ==
  IF Len(collectables) = 0 THEN Thrown("No collectables provided")
  ELSE
    LET collectable == collectables[rollCollectable(collectables, rarities, u.c, u.cf)]
        k == FindRarity(rarities, collectable.rarity)
        quality == rollQuality(u.q)
    IN IF k = 0 THEN Thrown("Rarity not found for collectable")
       ELSE Returned([id |-> id, collectableId |-> collectable.id,
                      playerId |-> playerId, quality |-> quality,
                      chance |-> calcChance(rarities[k], quality, u.s, u.n),
                      foundAt |-> foundAt])

\* ------------------------------------------------ scripts/seeder/rarities.ts

\* assignSessionChances without the + tier.minChance
assignSessionChances_noOffset(rarities, us) ==
  [i \in 1..Len(rarities) |->
     [id |-> rarities[i].id, name |-> rarities[i].name,
      chance |-> FMul(us[i], FSub(rarities[i].maxChance, rarities[i].minChance))]]

\* assignSessionChances; us[i] is the draw for the i-th tier
assignSessionChances(rarities, us) ==
  [i \in 1..Len(rarities) |->
     [id |-> rarities[i].id, name |-> rarities[i].name,
      chance |-> FAdd(FMul(us[i], FSub(rarities[i].maxChance, rarities[i].minChance)),
                      rarities[i].minChance)]]

\* ------------------------------------------------- scripts/seeder/players.ts

\* the loop of pickWeightedRarityId from index i on; past the last tier
\* the fallback reads the last tier, which an empty list does not have
RECURSIVE pickLoop(_, _, _, _)
pickLoop(sessionTiers, i, acc, r) ==
  IF i > Len(sessionTiers)
    THEN IF Len(sessionTiers) = 0 THEN Thrown("TypeError")
         ELSE Returned(sessionTiers[Len(sessionTiers)].id)
  ELSE LET sum == FAdd(acc, sessionTiers[i].chance)
       IN IF Leq(r, sum) THEN Returned(sessionTiers[i].id)
          ELSE pickLoop(sessionTiers, i + 1, sum, r)

\* pickWeightedRarityId without const r = Math.random() * total
pickWeightedRarityId_unscaled(sessionTiers, u) ==
  pickLoop(sessionTiers, 1, Zero, u)

pickWeightedRarityId(sessionTiers, u) ==
  LET total == Sum([i \in 1..Len(sessionTiers) |-> sessionTiers[i].chance])
  IN pickLoop(sessionTiers, 1, Zero, FMul(u, total))

\* generateCollectables stopping at totalCollectables collectables
generateCollectables_exactTotal(sessionTiers, totalCollectables, us) ==
  LET n == Max(0, totalCollectables)
      picks == [i \in (Len(sessionTiers) + 1)..n |->
                  pickWeightedRarityId(sessionTiers, us[i])]
  IN IF \E i \in DOMAIN picks : ~picks[i].ok THEN Thrown("TypeError")
     ELSE Returned([i \in 1..n |->
            IF i <= Len(sessionTiers)
              THEN [id |-> i, rarity |-> sessionTiers[i].id]
              ELSE [id |-> i, rarity |-> picks[i].value]])

\* generateCollectables without the guaranteed collectable per tier
generateCollectables_weightedOnly(sessionTiers, totalCollectables, us) ==
  LET n == Max(Len(sessionTiers), totalCollectables)
      picks == [i \in (Len(sessionTiers) + 1)..n |->
                  pickWeightedRarityId(sessionTiers, us[i])]
  IN IF \E i \in DOMAIN picks : ~picks[i].ok THEN Thrown("TypeError")
     ELSE Returned([i \in 1..n |->
            IF i <= Len(sessionTiers)
              THEN [id |-> i, rarity |-> pickWeightedRarityId(sessionTiers, Zero).value]
              ELSE [id |-> i, rarity |-> picks[i].value]])

\* generateCollectables; us[i] is the draw for the i-th collectable (used
\* past the guaranteed ones); a collectable's id is its place
generateCollectables(sessionTiers, totalCollectables, us) ==
  LET n == Max(Len(sessionTiers), totalCollectables)
      picks == [i \in (Len(sessionTiers) + 1)..n |->
                  pickWeightedRarityId(sessionTiers, us[i])]
  IN IF \E i \in DOMAIN picks : ~picks[i].ok THEN Thrown("TypeError")
     ELSE Returned([i \in 1..n |->
            IF i <= Len(sessionTiers)
              THEN [id |-> i, rarity |-> sessionTiers[i].id]
              ELSE [id |-> i, rarity |-> picks[i].value]])

\* --------------------------------------------- handlers/scan/process.ts

Collectable(id, rarity) == [id |-> id, rarity |-> rarity]

\* the draws of one generateItem
Roll(c, cf, q, s, n) == [c |-> c, cf |-> cf, q |-> q, s |-> s, n |-> n]

\* FreshItemIds when any id may come again
FreshItemIds_taken == ItemIds

\* crypto.randomUUID(): an id no item has and no put in flight carries
FreshItemIds ==
  { i \in ItemIds : /\ items[i] = NoItem
                    /\ \A q \in Reqs : \A w \in reqs[q].itemWrites : w[1] # i }

randomUUID == CHOOSE i \in FreshItemIds : TRUE

\* the scans tried among the trade requests: the body's id, the catalog
\* and the draws
ScanInputs ==
  LET catalog == << Collectable("c1", 0), Collectable("c2", 99) >>
      u(c) == Roll(c, Zero, Dec(1, 2), Dec(1, 2), Zero)
  IN { <<"P1", catalog, u(Zero)>>, <<"P1", catalog, u(Dec(1, 2))>>,
       <<"P1", <<>>, u(Zero)>>, <<NoPlayer, catalog, u(Zero)>> }

\* what one call of generateItem was given and what came of it
GenItem(playerId, collectables, rarities, u, out) ==
  [fn |-> "generateItem", playerId |-> playerId, collectables |-> collectables,
   rarities |-> rarities, u |-> u, out |-> out]

\* what a scan that did not get to generateItem was given
NoRoll(playerId, collectables) ==
  [fn |-> "noRoll", playerId |-> playerId, collectables |-> collectables]

\* scanPut leaving the item without its player
scanPut_unowned(awarded) == { <<awarded.id, NoPlayer>> }

\* Dynamodb.put(Tables.Items, awarded)
scanPut(awarded) == { <<awarded.id, awarded.playerId>> }

\* the handler's outcome before the put: the response, 200 when the item
\* is to be put; thrown errors go through handleError
scanOutcome(id, collectables, out) ==
  IF id = NoPlayer THEN Resp(400, "id and barcode required", "none")
  ELSE IF Len(collectables) = 0 THEN Resp(500, "No items in catalog", "none")
  ELSE IF ~out.ok THEN Resp(500, out.error, "none")
  ELSE Resp(200, "ok", "none")

\* POST /scan: id is the player of the body, collectables what the scan of
\* Collectables returns, u the draws; the put of the awarded item is issued
ScanHandler(r, id, collectables, u) ==
  LET out == generateItem(id, collectables, rarityTiers, now, randomUUID, u)
      res == scanOutcome(id, collectables, out)
      rolled == id # NoPlayer /\ Len(collectables) # 0
      alone == \A q \in Reqs : ~InFlight(q)
  IN /\ FreshItemIds # {}
     /\ IF res.code = 200
          THEN /\ reqs' = [reqs EXCEPT ![r] =
                             [IdleReq EXCEPT !.op = "scan", !.caller = id,
                                !.pc = "put",
                                !.itemWrites = scanPut(out.value)]]
               /\ last' = Arrival(r, "scan", id, 0, NoResp)
          ELSE /\ last' = Arrival(r, "scan", id, 0, res)
               /\ UNCHANGED reqs
     /\ gen' = IF ~alone THEN NoGen
               ELSE IF rolled THEN GenItem(id, collectables, rarityTiers, u, out)
               ELSE NoRoll(id, collectables)
     /\ UNCHANGED <<items, trades, now, coPending, players, signups>>

\* ---------------------------------------------------- the rolling code

\* Math.pow(x, 6.66) for a draw x: the hundredths, the largest number
\* below one, and one
PowDraws ==
  { Dec(k, 100) : k \in 0..99 } \cup { Num(2^Precision - 1, 0 - Precision), One }

\* a pool of n collectables of one rarity
Pool(n, rarity) ==
  [i \in 1..n |->
     Collectable(<<"c1", "c2", "c3", "c4", "c5", "c6", "c7">>[i], rarity)]

\* pools of equal weights, whose normalized weights do not add up to one
Pools == { Pool(n, 1) : n \in 5..7 }

\* a catalog of one collectable per rarity id, known or not, the empty
\* catalog, and one where an unknown rarity sits next to a known one
Catalogs ==
  { << Collectable("c1", k) >> : k \in 0..24 }
    \cup { <<>>, << Collectable("c1", 0), Collectable("c2", 99) >> }

\* the draws of a roll; a pool of equal weights is rolled for its pick
\* alone, with one quality
Rolls(collectables) ==
  IF Len(collectables) > 2
    THEN { Roll(c, cf, Dec(1, 2), Zero, Zero) : c \in Draws, cf \in Draws }
  ELSE
  { Roll(c, Zero, q, s, n) :
      c \in IF Len(collectables) > 1 THEN Draws ELSE {Zero},
      q \in PowDraws, s \in Draws, n \in Draws \ {Dec(1, 2)} }

TierTables == { rarityTiers, dataRarityTiers }

\* the seeder starts a step while no request is served and its last step
\* has been looked at
SeederIdle ==
  /\ \A q \in Reqs : ~InFlight(q)
  /\ last = NoLast
  /\ gen = NoGen

\* the run of the rolling code has been looked at
Forget ==
  /\ last = NoLast
  /\ gen # NoGen
  /\ gen' = NoGen
  /\ UNCHANGED <<items, trades, now, reqs, last, coPending, players, signups>>

\* one round of the loop of generateItems; the date it passes as foundAt,
\* some instant of the last week, is not read by the roll
GenerateItems(playerId, collectables, rarities, u) ==
  /\ Len(collectables) # 0
  /\ FreshItemIds # {}
  /\ gen' = GenItem(playerId, collectables, rarities, u,
                    generateItem(playerId, collectables, rarities, now, randomUUID, u))
  /\ UNCHANGED <<items, trades, now, reqs, last, coPending, players, signups>>

\* the tier lists given to assignSessionChances: the tables, their pieces
\* of up to MaxTiers tiers, no tier, and a tier whose range is one number
TierLists ==
  LET pieces(t) == { SubSeq(t, a, b) : a \in 1..Len(t), b \in 1..Len(t) }
  IN { t \in pieces(rarityTiers) \cup pieces(dataRarityTiers) : Len(t) <= MaxTiers }
       \cup { rarityTiers, dataRarityTiers,
              << Rarity(0, "Flat", Dec(1, 2), Dec(1, 2)) >>,
              << Rarity(0, "Flat", Dec(1, 2), Dec(1, 2)),
                 Rarity(1, "Rare", Dec(13, 100), Dec(17, 100)) >> }

\* n draws: every combination for a short list, the same draw n times for
\* a long one
DrawSeqs(n) ==
  IF n <= MaxTiers THEN [1..n -> Draws] ELSE { [i \in 1..n |-> d] : d \in Draws }

SessionChances(rarities, us, out) ==
  [fn |-> "assignSessionChances", rarities |-> rarities, us |-> us, out |-> out]

\* seed.ts: const sessionTiers = assignSessionChances(rarities)
AssignSessionChances(rarities, us) ==
  /\ gen' = SessionChances(rarities, us, assignSessionChances(rarities, us))
  /\ UNCHANGED <<items, trades, now, reqs, last, coPending, players, signups>>

\* rarities are the configured tiers the session tiers were drawn from
GenCatalog(rarities, sessionTiers, totalCollectables, us, out) ==
  [fn |-> "generateCollectables", rarities |-> rarities,
   sessionTiers |-> sessionTiers,
   totalCollectables |-> totalCollectables, us |-> us, out |-> out]

\* seed.ts: generateCollectables(sessionTiers, totalCollectables) on the
\* session tiers just assigned; us are the draws of the weighted picks
GenerateCollectables(totalCollectables, us) ==
  /\ gen.fn = "assignSessionChances"
  /\ gen' = GenCatalog(gen.rarities, gen.out, totalCollectables, us,
                         generateCollectables(gen.out, totalCollectables, us))
  /\ UNCHANGED <<items, trades, now, reqs, last, coPending, players, signups>>

\* the totals asked for: below zero, zero, and from one fewer than the
\* tiers to MaxExtra more
Totals(sessionTiers) ==
  {0 - 1, 0} \cup ((Len(sessionTiers) - 1) .. (Len(sessionTiers) + MaxExtra))

\* the draws of the weighted picks, indexed like the collectables
PickDraws(sessionTiers, totalCollectables) ==
  [ (Len(sessionTiers) + 1)..totalCollectables -> Draws ]

\* -------------------------------------------------- functions/auth.ts
\* An email is the sequence of its characters.

\* String.prototype.trim
RECURSIVE trim(_)
trim(s) ==
  IF s = <<>> THEN s
  ELSE IF Head(s) = " " THEN trim(Tail(s))
  ELSE IF s[Len(s)] = " " THEN trim(SubSeq(s, 1, Len(s) - 1))
  ELSE s

\* String.prototype.toLowerCase
toLowerCase(s) ==
  [i \in DOMAIN s |->
     IF s[i] = "A" THEN "a" ELSE IF s[i] = "B" THEN "b" ELSE s[i]]

\* the Player record put; username, passwordHash, createdAt and totalScans
\* are written once and not read by signup
Player(id, email) == [id |-> id, email |-> email]
NoPlayerRecord == Player(0, <<>>)

IdleSignup ==
  [pc |-> "idle", email |-> <<>>, existingPlayers |-> {},
   player |-> NoPlayerRecord, resp |-> NoResp]

\* crypto.randomUUID(): an id no Player record has and no put carries
FreshPlayerIds ==
  (1..MaxPlayers) \ ({ p.id : p \in players }
                       \cup { signups[q].player.id : q \in Reqs })

\* Dynamodb.query(Tables.Players, "email = :email", ..., "EmailIndex")
queryEmailIndex(email) == { p \in players : p.email = email }

\* registerPlayer up to the result of its query: what it throws, or 201
\* when it goes on to the put
registerCheck(email, password) ==
  IF email = <<>> \/ password = ""
    THEN Resp(400, "Email and password are required", "none")
  ELSE IF queryEmailIndex(toLowerCase(trim(email))) # {}
    THEN Resp(409, "User already exists", "none")
  ELSE Resp(201, "ok", "none")

\* POST /auth/signup up to the result of the query of registerPlayer; an
\* error is answered at once, otherwise the put is issued
SignupHandler(r, email, password) ==
  LET res == registerCheck(email, password)
  IN /\ signups[r].pc = "idle"
     /\ res.code = 201 => FreshPlayerIds # {}
     /\ signups' = [signups EXCEPT ![r] =
          IF res.code = 201
            THEN [pc |-> "put", email |-> email, existingPlayers |-> {},
                  player |-> Player(CHOOSE i \in FreshPlayerIds : TRUE,
                                    toLowerCase(trim(email))),
                  resp |-> NoResp]
          ELSE [IdleSignup EXCEPT !.email = email, !.resp = res,
                  !.existingPlayers =
                     IF res.code = 409
                       THEN queryEmailIndex(toLowerCase(trim(email)))
                     ELSE {}]]
     /\ UNCHANGED <<items, trades, now, reqs, last, coPending, gen, players>>

\* await Dynamodb.put(Tables.Players, player), then 201 with the token
SignupPut(r) ==
  /\ signups[r].pc = "put"
  /\ players' = players \cup { signups[r].player }
  /\ signups' = [signups EXCEPT ![r] =
        [IdleSignup EXCEPT !.email = signups[r].email,
                           !.resp = Resp(201, "ok", "none")]]
  /\ UNCHANGED <<items, trades, now, reqs, last, coPending, gen>>

\* the emails and passwords posted: two spellings and a padding of one
\* address, another address, and a missing field
SignupEmails == { <<"a">>, <<"A">>, <<" ", "a">>, <<"b">>, <<>> }
Passwords == { "pw", "" }

\* ------------------------------------------------------- specifications
Init ==
  /\ items = [i \in ItemIds |->
                IF i = "i2" THEN "P2" ELSE IF i = "i4" THEN NoItem ELSE "P1"]
  /\ trades = <<>>
  /\ now = 1
  /\ reqs = [r \in Reqs |-> IdleReq]
  /\ last = NoLast
  /\ coPending = {}
  /\ gen = NoGen
  /\ players = {}
  /\ signups = [r \in Reqs |-> IdleSignup]

\* invocations overlap freely
Next ==
  \/ \E r \in Reqs : Admit(r, FALSE) /\ \E body \in Offers : CreateHandler(r, body)
  \/ \E r \in Reqs : Admit(r, FALSE) /\
       \E c \in Players, t \in TradeIds : AcceptGetTrade(r, c, t)
  \/ \E r \in Reqs : Admit(r, FALSE) /\
       \E c \in Players, t \in TradeIds : RejectGetTrade(r, c, t)
  \/ \E r \in Reqs : Admit(r, FALSE) /\
       \E c \in Players, t \in TradeIds : CancelGetTrade(r, c, t)
  \/ \E r \in Reqs : AcceptOfferedOwned(r)
  \/ \E r \in Reqs : AcceptRequestedOwned(r)
  \/ \E r \in Reqs : AcceptFindConflicts(r)
  \/ \E r \in Reqs : \E w \in reqs[r].itemWrites : UpdateItem(r, w)
  \/ \E r \in Reqs : \E w \in reqs[r].tradeWrites : UpdateTrade(r, w)
  \/ Deliver
  \/ Tick

Spec == Init /\ [][Next]_vars

\* requests are served one at a time
SeqNext ==
  \/ \E r \in Reqs : Admit(r, TRUE) /\ \E body \in Offers : CreateHandler(r, body)
  \/ \E r \in Reqs : Admit(r, TRUE) /\
       \E c \in Players, t \in TradeIds : AcceptGetTrade(r, c, t)
  \/ \E r \in Reqs : Admit(r, TRUE) /\
       \E c \in Players, t \in TradeIds : RejectGetTrade(r, c, t)
  \/ \E r \in Reqs : Admit(r, TRUE) /\
       \E c \in Players, t \in TradeIds : CancelGetTrade(r, c, t)
  \/ \E r \in Reqs : AcceptOfferedOwned(r)
  \/ \E r \in Reqs : AcceptRequestedOwned(r)
  \/ \E r \in Reqs : AcceptFindConflicts(r)
  \/ \E r \in Reqs : \E w \in reqs[r].itemWrites : UpdateItem(r, w)
  \/ \E r \in Reqs : \E w \in reqs[r].tradeWrites : UpdateTrade(r, w)
  \/ Deliver
  \/ Tick

SeqSpec == Init /\ [][SeqNext]_vars

\* requests of every kind, scans among them, are served one at a time
\* within one instant of the clock
ScanNext ==
  \/ \E r \in Reqs : Admit(r, TRUE) /\ \E body \in Offers : CreateHandler(r, body)
  \/ \E r \in Reqs : Admit(r, TRUE) /\
       \E c \in Players, t \in TradeIds : AcceptGetTrade(r, c, t)
  \/ \E r \in Reqs : Admit(r, TRUE) /\
       \E c \in Players, t \in TradeIds : RejectGetTrade(r, c, t)
  \/ \E r \in Reqs : Admit(r, TRUE) /\
       \E c \in Players, t \in TradeIds : CancelGetTrade(r, c, t)
  \/ \E r \in Reqs : Admit(r, TRUE) /\
       \E i \in ScanInputs : ScanHandler(r, i[1], i[2], i[3])
  \/ \E r \in Reqs : AcceptOfferedOwned(r)
  \/ \E r \in Reqs : AcceptRequestedOwned(r)
  \/ \E r \in Reqs : AcceptFindConflicts(r)
  \/ \E r \in Reqs : \E w \in reqs[r].itemWrites : UpdateItem(r, w)
  \/ \E r \in Reqs : \E w \in reqs[r].tradeWrites : UpdateTrade(r, w)
  \/ Deliver

ScanSpec == Init /\ [][ScanNext]_vars

\* the seeder on its own
GenNext ==
  \/ SeederIdle /\
       \E rarities \in TierTables, collectables \in Pools :
         \E u \in Rolls(collectables) : GenerateItems("P1", collectables, rarities, u)
  \/ SeederIdle /\
       \E rarities \in TierLists :
         \E us \in DrawSeqs(Len(rarities)) : AssignSessionChances(rarities, us)
  \/ gen.fn = "assignSessionChances" /\
       \E totalCollectables \in Totals(gen.out) :
         \E us \in PickDraws(gen.out, totalCollectables) :
           GenerateCollectables(totalCollectables, us)
  \/ SeederIdle /\
       \E rarities \in TierTables, collectables \in Catalogs :
         \E u \in Rolls(collectables) : GenerateItems("P1", collectables, rarities, u)
  \/ Forget

GenSpec == Init /\ [][GenNext]_vars

\* requests served one at a time over a store whose updates may fail
FailNext ==
  \/ \E r \in Reqs : Admit(r, TRUE) /\ \E body \in Offers : CreateHandler(r, body)
  \/ \E r \in Reqs : Admit(r, TRUE) /\
       \E c \in Players, t \in TradeIds : AcceptGetTrade(r, c, t)
  \/ \E r \in Reqs : Admit(r, TRUE) /\
       \E c \in Players, t \in TradeIds : RejectGetTrade(r, c, t)
  \/ \E r \in Reqs : Admit(r, TRUE) /\
       \E c \in Players, t \in TradeIds : CancelGetTrade(r, c, t)
  \/ \E r \in Reqs : AcceptOfferedOwned(r)
  \/ \E r \in Reqs : AcceptRequestedOwned(r)
  \/ \E r \in Reqs : AcceptFindConflicts(r)
  \/ \E r \in Reqs : \E w \in reqs[r].itemWrites : UpdateItem(r, w)
  \/ \E r \in Reqs : \E w \in reqs[r].tradeWrites : UpdateTrade(r, w)
  \/ Deliver
  \/ Tick
  \/ \E r \in Reqs : \E w \in reqs[r].itemWrites : FailItem(r, w)
  \/ \E r \in Reqs : \E w \in reqs[r].tradeWrites : FailTrade(r, w)

FailSpec == Init /\ [][FailNext]_vars

\* signups on their own, overlapping freely
AuthNext ==
  \/ \E r \in Reqs : \E email \in SignupEmails, password \in Passwords :
       SignupHandler(r, email, password)
  \/ \E r \in Reqs : SignupPut(r)

AuthSpec == Init /\ [][AuthNext]_vars

\* ------------------------------------------------------------ properties

\* a request that ran alone has returned and its response is at hand
Answered(op) == last.op = op /\ last.resp # NoResp

\* the request was for a trade that existed when it arrived
OnTrade == last.tid \in DOMAIN last.trades

\* that trade as the request found it
PreTrade == last.trades[last.tid]

\* every item of itemIds exists in table tbl and is owned by playerId
OwnedBy(tbl, itemIds, playerId) ==
  \A i \in itemIds : tbl[i] # NoItem /\ tbl[i] = playerId

\* the items a trade lists
Listed(trade) == trade.offeredItemIds \cup trade.requestedItemIds

\* the caller is the player the operation is reserved to
Entitled ==
  IF last.op = "cancel" THEN last.caller = PreTrade.fromPlayerId
  ELSE last.caller = PreTrade.toPlayerId

\* C1: two trades that were PENDING at the same time and list a common
\* item are never both COMPLETED.
C1_OneTradePerItem ==
  \A a \in DOMAIN trades : \A b \in DOMAIN trades :
    (/\ a # b
     /\ {a, b} \in coPending
     /\ Listed(trades[a]) \cap Listed(trades[b]) # {})
    => ~(trades[a].status = COMPLETED /\ trades[b].status = COMPLETED)

\* C2: a trade whose status is COMPLETED, REJECTED or CANCELLED keeps that
\* status in every later step.
C2_TerminalIsFinal ==
  [][\A t \in DOMAIN trades :
       trades[t].status \in Terminal => trades'[t].status = trades[t].status]_vars

\* the accept that has returned was called by the recipient on a PENDING
\* trade whose two item lists were owned as the trade says
C3_Pre ==
  /\ Answered("accept")
  /\ OnTrade
  /\ last.caller = PreTrade.toPlayerId
  /\ PreTrade.status = PENDING
  /\ OwnedBy(last.items, PreTrade.offeredItemIds, PreTrade.fromPlayerId)
  /\ OwnedBy(last.items, PreTrade.requestedItemIds, PreTrade.toPlayerId)

\* C3: after such an accept every offered item is owned by toPlayerId,
\* every requested item by fromPlayerId, and the trade is COMPLETED with
\* resolvedAt set.
C3_AcceptSettles ==
  C3_Pre =>
    /\ last.resp.code = 200
    /\ \A i \in PreTrade.offeredItemIds : items[i] = PreTrade.toPlayerId
    /\ \A i \in PreTrade.requestedItemIds : items[i] = PreTrade.fromPlayerId
    /\ trades[last.tid].status = COMPLETED
    /\ trades[last.tid].resolvedAt # NoTime

\* an accept of a two-sided swap has gone through
C3_Witness ==
  /\ C3_Pre
  /\ last.resp.code = 200
  /\ PreTrade.offeredItemIds # {}
  /\ PreTrade.requestedItemIds # {}
  /\ items # last.items

\* an accept is between the issue and the completion of its step-3 updates
Settling(t) ==
  \E r \in Reqs : reqs[r].op = "accept" /\ reqs[r].tid = t /\ reqs[r].pc = "transfer"

\* item i of trade t is with the player the settlement gives it to
Reassigned(t, i) ==
  /\ i \in trades[t].offeredItemIds => items[i] = trades[t].toPlayerId
  /\ i \in trades[t].requestedItemIds => items[i] = trades[t].fromPlayerId

\* C4: the tables never show a settlement half done: while a trade is being
\* settled either none of its items is reassigned and it is PENDING, or all
\* are reassigned and it is COMPLETED.
C4_AtomicSettlement ==
  \A t \in DOMAIN trades :
    Settling(t) =>
      \/ /\ trades[t].status = PENDING
         /\ \A i \in Listed(trades[t]) : ~Reassigned(t, i)
      \/ /\ trades[t].status = COMPLETED
         /\ \A i \in Listed(trades[t]) : Reassigned(t, i)

\* trade t listed, when the request arrived, an item the accepted trade moves
Conflicting(t) == Listed(last.trades[t]) \cap Listed(PreTrade) # {}

\* C5: once accept has returned successfully every other trade that was
\* PENDING and lists a moved item is CANCELLED, and every trade that lists
\* none of them is as it was.
C5_ConflictCancellation ==
  (Answered("accept") /\ last.resp.code = 200) =>
    /\ DOMAIN trades = DOMAIN last.trades
    /\ \A t \in DOMAIN last.trades \ {last.tid} :
         /\ (last.trades[t].status = PENDING /\ Conflicting(t))
              => trades[t].status = CANCELLED
         /\ ~Conflicting(t) => trades[t] = last.trades[t]

\* a successful accept has cancelled another trade
C5_Witness ==
  /\ Answered("accept")
  /\ last.resp.code = 200
  /\ \E t \in DOMAIN last.trades \ {last.tid} :
       /\ last.trades[t].status = PENDING
       /\ Conflicting(t)
       /\ trades[t].status = CANCELLED

\* the accept that has returned was called by the recipient on a PENDING
\* trade one of whose items was missing or owned by somebody else
C6_Pre ==
  /\ Answered("accept")
  /\ OnTrade
  /\ last.caller = PreTrade.toPlayerId
  /\ PreTrade.status = PENDING
  /\ \/ ~OwnedBy(last.items, PreTrade.offeredItemIds, PreTrade.fromPlayerId)
     \/ ~OwnedBy(last.items, PreTrade.requestedItemIds, PreTrade.toPlayerId)

\* C6: such an accept fails with an ownership error, the trade stays
\* PENDING and no record changes.
C6_OwnershipFailure ==
  C6_Pre =>
    /\ last.resp.code = 400
    /\ last.resp.error \in {"offered not owned", "requested not owned"}
    /\ trades[last.tid].status = PENDING
    /\ trades = last.trades
    /\ items = last.items

\* an accept has been refused because a requested item does not exist
C6_Witness ==
  /\ C6_Pre
  /\ last.resp.error = "requested not owned"
  /\ \E i \in PreTrade.requestedItemIds : last.items[i] = NoItem

\* C7: accept, reject or cancel by the entitled player on a trade that is
\* COMPLETED, REJECTED or CANCELLED fails with an error naming that status
\* and leaves the Trade record as it was.
C7_TerminalCallsFail ==
  (/\ last.resp # NoResp
   /\ last.op \in {"accept", "reject", "cancel"}
   /\ OnTrade
   /\ PreTrade.status \in Terminal
   /\ Entitled)
  => /\ last.resp.code = 400
     /\ last.resp.error = "not pending"
     /\ last.resp.status = PreTrade.status
     /\ trades[last.tid] = PreTrade

\* C8: a successful cancel by fromPlayerId on a PENDING trade leaves the
\* trade CANCELLED.
C8_CancelMarksCancelled ==
  (/\ Answered("cancel")
   /\ last.resp.code = 200
   /\ last.caller = PreTrade.fromPlayerId
   /\ PreTrade.status = PENDING)
  => trades[last.tid].status = CANCELLED

\* a reject by the recipient on a PENDING trade has returned successfully
C9_Pre ==
  /\ Answered("reject")
  /\ last.resp.code = 200
  /\ last.caller = PreTrade.toPlayerId
  /\ PreTrade.status = PENDING

\* C9: a successful reject leaves the trade REJECTED and changes no Item
\* record and no other Trade record.
C9_RejectFrame ==
  C9_Pre =>
    /\ trades[last.tid].status = REJECTED
    /\ items = last.items
    /\ DOMAIN trades = DOMAIN last.trades
    /\ \A t \in DOMAIN trades \ {last.tid} : trades[t] = last.trades[t]

\* a reject has gone through while another trade was on record
C9_Witness ==
  /\ C9_Pre
  /\ trades[last.tid].status = REJECTED
  /\ DOMAIN trades \ {last.tid} # {}

\* accept, reject or cancel was called by a player it is not reserved to
C10_Pre ==
  /\ last.resp # NoResp
  /\ last.op \in {"accept", "reject", "cancel"}
  /\ OnTrade
  /\ ~Entitled

\* C10: a call by a player other than the one entitled to it fails and
\* leaves every Trade and Item record unchanged.
C10_CallerAuthorization ==
  C10_Pre =>
    /\ last.resp.code = 403
    /\ trades = last.trades
    /\ items = last.items

\* the sender of a PENDING, acceptable trade has tried to accept it himself
C10_Witness ==
  /\ C10_Pre
  /\ last.op = "accept"
  /\ last.caller = PreTrade.fromPlayerId
  /\ PreTrade.status = PENDING
  /\ OwnedBy(last.items, PreTrade.offeredItemIds, PreTrade.fromPlayerId)
  /\ OwnedBy(last.items, PreTrade.requestedItemIds, PreTrade.toPlayerId)
  /\ last.resp.code = 403

\* the create that has returned wrote a Trade record
Created == Answered("create") /\ last.resp.code = 201

\* the items of the body were owned, when create arrived, as the body says
C11_Owned ==
  /\ OwnedBy(last.items, last.body.offeredItemIds, last.caller)
  /\ OwnedBy(last.items, last.body.requestedItemIds, last.body.toPlayerId)

\* C11: create writes a Trade record only if every offered item exists and
\* is owned by the caller and every requested item exists and is owned by
\* toPlayerId; a well-formed create that fails this test returns an
\* ownership error and writes no record.
C11_CreateChecksOwnership ==
  Answered("create") =>
    /\ Created => C11_Owned
    /\ (createValidate(last.caller, last.body).code = 201 /\ ~C11_Owned)
         => /\ last.resp.code = 400
            /\ last.resp.error \in {"offered not owned", "requested not owned"}
            /\ trades = last.trades

\* the body is malformed as the claim has it: a list is no array, a list
\* is empty, or the recipient is the caller
C12_Malformed ==
  \/ last.body.shape # "ok"
  \/ last.body.offeredItemIds = {}
  \/ last.body.requestedItemIds = {}
  \/ last.body.toPlayerId = last.caller

\* create has failed with a validation error and has written nothing
C12_Refused ==
  /\ last.resp.code = 400
  /\ last.resp.error \in {"required", "arrays", "empty", "self"}
  /\ trades = last.trades
  /\ items = last.items

\* C12: a create whose offeredItemIds or requestedItemIds is no array,
\* whose offered or requested list is empty, or whose toPlayerId is the
\* caller, fails with a validation error and writes no Trade record.
C12_CreateValidates ==
  (Answered("create") /\ C12_Malformed) => C12_Refused

\* malformed as the handler has it: a list is no array, both lists are
\* empty, or the recipient is the caller
C12_MalformedBothEmpty ==
  \/ last.body.shape # "ok"
  \/ last.body.offeredItemIds = {} /\ last.body.requestedItemIds = {}
  \/ last.body.toPlayerId = last.caller

\* C12 (amended): a create whose offeredItemIds or requestedItemIds is no
\* array, whose lists are both empty, or whose toPlayerId is the caller,
\* fails with a validation error and writes no Trade record.
C12_CreateValidatesBothEmpty ==
  (Answered("create") /\ C12_MalformedBothEmpty) => C12_Refused

\* a self-trade with two non-empty lists has been refused
C12_Witness ==
  /\ Answered("create")
  /\ last.body.shape = "ok"
  /\ last.body.toPlayerId = last.caller
  /\ last.body.offeredItemIds # {}
  /\ last.body.requestedItemIds # {}
  /\ C12_Refused

\* C13: the record a successful create writes is new, PENDING, without
\* resolvedAt and has the caller as fromPlayerId; every Trade record that
\* existed and every Item record is as it was.
C13_CreatePersistsPending ==
  Created =>
    /\ last.tid \notin DOMAIN last.trades
    /\ DOMAIN trades = DOMAIN last.trades \cup {last.tid}
    /\ trades[last.tid].status = PENDING
    /\ trades[last.tid].resolvedAt = NoTime
    /\ trades[last.tid].fromPlayerId = last.caller
    /\ \A t \in DOMAIN last.trades : trades[t] = last.trades[t]
    /\ items = last.items

\* a trade has been created next to another one that had been resolved
C13_Witness ==
  /\ Created
  /\ \E t \in DOMAIN last.trades : last.trades[t].status \in Terminal

\* C15: between requests every PENDING trade has its offered items owned by
\* its fromPlayerId and its requested items owned by its toPlayerId.
C15_NoZombieTrades ==
  (\A r \in Reqs : ~InFlight(r)) =>
    \A t \in DOMAIN trades :
      trades[t].status = PENDING =>
        /\ OwnedBy(items, trades[t].offeredItemIds, trades[t].fromPlayerId)
        /\ OwnedBy(items, trades[t].requestedItemIds, trades[t].toPlayerId)

\* a call of generateItem has returned an item
Rolled == gen.fn = "generateItem" /\ gen.out.ok

\* the tier of the rolled item's collectable
RolledRarity ==
  LET collectable == CHOOSE c \in { gen.collectables[i] : i \in DOMAIN gen.collectables } :
                       c.id = gen.out.value.collectableId
  IN gen.rarities[FindRarity(gen.rarities, collectable.rarity)]

\* C16: the chance of every item generateItem returns lies between the
\* minChance and the maxChance of the tier of the item's collectable,
\* whatever the quality and the draws.
C16_ChanceWithinTier ==
  Rolled => /\ Leq(RolledRarity.minChance, gen.out.value.chance)
            /\ Leq(gen.out.value.chance, RolledRarity.maxChance)

\* C17: the quality of every item generateItem returns is an integer from
\* 1 to 100, whatever the draw.
C17_QualityInRange == Rolled => gen.out.value.quality \in 1..100

\* a roll whose power draw is one, where Math.min caps the quality
C17_Witness == Rolled /\ gen.u.q = One /\ gen.out.value.quality = 100

\* generateCollectables has run on a list of session tiers
Seeded == gen.fn = "generateCollectables"

\* every tier id of the list is the rarity of a returned collectable
Covered ==
  /\ gen.out.ok
  /\ \A i \in DOMAIN gen.sessionTiers :
       \E j \in DOMAIN gen.out.value :
         gen.out.value[j].rarity = gen.sessionTiers[i].id

C20_SessionChances ==
  gen.fn = "assignSessionChances" =>
    /\ Len(gen.out) = Len(gen.rarities)
    /\ \A i \in DOMAIN gen.rarities :
         /\ gen.out[i].id = gen.rarities[i].id
         /\ gen.out[i].name = gen.rarities[i].name
         /\ Leq(gen.rarities[i].minChance, gen.out[i].chance)
         /\ Leq(gen.out[i].chance, gen.rarities[i].maxChance)
         /\ gen.rarities[i].minChance = gen.rarities[i].maxChance
              => gen.out[i].chance = gen.rarities[i].minChance

\* a flat tier next to a tier with a range, both drawn just below one
C20_Witness ==
  /\ gen.fn = "assignSessionChances"
  /\ Len(gen.rarities) = 2
  /\ gen.rarities[1].minChance = gen.rarities[1].maxChance
  /\ gen.out[1].chance = gen.rarities[1].minChance
  /\ gen.us[2] = Num(2^Precision - 1, 0 - Precision)
  /\ Less(gen.rarities[2].minChance, gen.out[2].chance)

UnknownRarityPicked ==
  /\ last.op = "scan"
  /\ gen.fn = "generateItem"
  /\ LET picked == rollCollectable(gen.collectables, gen.rarities, gen.u.c, gen.u.cf)
     IN FindRarity(gen.rarities, gen.collectables[picked].rarity) = 0

\* C18: when the collectable a roll selects has a rarity id that matches
\* no tier, generateItem throws, the scan is answered with an error, and
\* no item is put: the Items table is as the scan found it.
C18_UnknownRarityFails ==
  UnknownRarityPicked =>
    /\ ~gen.out.ok
    /\ gen.out.error = "Rarity not found for collectable"
    /\ last.resp.code = 500
    /\ \A r \in Reqs : ~InFlight(r)
    /\ items = last.items

\* such a scan, made once a trade had been created
C18_Witness ==
  /\ UnknownRarityPicked
  /\ Answered("scan")
  /\ trades # <<>>

\* C22: an accept, reject or cancel of a trade id with no Trade record is
\* answered 404 "Trade not found", and the Trades and Items tables are as
\* the request found them.
C22_MissingTradeNotFound ==
  /\ last.op \in {"accept", "reject", "cancel"}
  /\ last.tid \notin DOMAIN last.trades
  => /\ last.resp = Resp(404, "Trade not found", "none")
     /\ trades = last.trades
     /\ items = last.items
     /\ \A r \in Reqs : ~InFlight(r)

\* a reject of a trade id that is not there, next to a trade that is
C22_Witness ==
  /\ Answered("reject")
  /\ last.tid \notin DOMAIN last.trades
  /\ last.trades # <<>>

C27_ScanAddsOneItem ==
  Answered("scan") =>
    /\ trades = last.trades
    /\ last.resp.code = 200 =>
         /\ Rolled
         /\ last.items[gen.out.value.id] = NoItem
         /\ items[gen.out.value.id] = last.caller
         /\ gen.playerId = last.caller
         /\ \A i \in ItemIds \ {gen.out.value.id} : items[i] = last.items[i]
    /\ last.resp.code # 200 => items = last.items
    /\ gen.collectables = <<>> => last.resp.code # 200

\* a scan has added its item while a trade was pending
C27_Witness ==
  /\ Answered("scan")
  /\ last.resp.code = 200
  /\ items # last.items
  /\ \E t \in DOMAIN trades : trades[t].status = PENDING

\* the returned list is as long as the larger of the total and the number
\* of tiers, and starts with one collectable per tier, in tier order
GuaranteedFirst ==
  /\ gen.out.ok
  /\ Len(gen.out.value) = Max(gen.totalCollectables, Len(gen.sessionTiers))
  /\ \A i \in DOMAIN gen.sessionTiers :
       gen.out.value[i].rarity = gen.sessionTiers[i].id

Fillers == (Len(gen.sessionTiers) + 1) .. gen.totalCollectables

\* the drawn chances of the first k session tiers, added up in order
ChanceUpTo(k) == SumTo([i \in DOMAIN gen.sessionTiers |-> gen.sessionTiers[i].chance], k)

\* the draw of the filler at place i, scaled by the total of the drawn
\* chances
ScaledDraw(i) == FMul(gen.us[i], ChanceUpTo(Len(gen.sessionTiers)))

\* C28: the tier of a filler collectable does not depend on the chances
\* the session drew: for the same draws of the picks, a session with any
\* other chances drawn from the same configured tiers gets the same
\* catalog.
C28_PickIgnoresDrawnChance ==
  Seeded /\ gen.out.ok =>
    \A us2 \in DrawSeqs(Len(gen.rarities)) :
      generateCollectables(assignSessionChances(gen.rarities, us2),
                           gen.totalCollectables, gen.us) = gen.out

\* C28 as amended: the tier of a filler collectable is the one the
\* roulette picks with the session's drawn chance of each tier as weight:
\* the first tier, in order, at which the running sum of the drawn
\* chances reaches the draw times their total, the last tier when no
\* running sum does.
C28_PickByDrawnChance ==
  Seeded /\ gen.out.ok =>
    \A i \in Fillers :
      LET reached == { k \in DOMAIN gen.sessionTiers :
                         Leq(ScaledDraw(i), ChanceUpTo(k)) }
      IN gen.out.value[i].rarity =
           IF reached = {} THEN gen.sessionTiers[Len(gen.sessionTiers)].id
           ELSE gen.sessionTiers[CHOOSE k \in reached :
                                   \A j \in reached : k <= j].id

\* two sessions of the same two configured tiers and the same draw of the
\* pick: the one that drew a low first chance gets the second tier, the
\* other one would get the first
C28_Witness ==
  /\ Seeded
  /\ gen.out.ok
  /\ Len(gen.sessionTiers) = 2
  /\ gen.totalCollectables = 3
  /\ gen.out.value[3].rarity = gen.sessionTiers[2].id
  /\ \E us2 \in DrawSeqs(2) :
       generateCollectables(assignSessionChances(gen.rarities, us2), 3, gen.us).value[3].rarity
         = gen.sessionTiers[1].id

\* the normalized weights of the rolled pool
PoolWeights ==
  LET w == [i \in DOMAIN gen.collectables |->
              LET k == FindRarity(gen.rarities, gen.collectables[i].rarity)
              IN IF k = 0 THEN One
                 ELSE FDiv(FAdd(gen.rarities[k].minChance, gen.rarities[k].maxChance),
                           FromInt(2))]
  IN [i \in DOMAIN w |-> FDiv(w[i], Sum(w))]

\* what is left of the draw after the first i normalized weights
RECURSIVE LeftAfter(_)
LeftAfter(i) == IF i = 0 THEN gen.u.c ELSE FSub(LeftAfter(i - 1), PoolWeights[i])

\* the places of the pool at which the draw is used up
UsedUp == { i \in DOMAIN gen.collectables : Leq(LeftAfter(i), Zero) }

\* the id of the collectable of the rolled item is that of place i
PickedAt(i) == gen.out.value.collectableId = gen.collectables[i].id

\* the first place at which the draw is used up
FirstUsedUp == CHOOSE i \in UsedUp : \A j \in UsedUp : i <= j

\* C29: rollCollectable returns the first collectable of the pool at which
\* the draw minus the running sum of the normalized weights is at most
\* zero, and the last collectable of the pool when there is no such place.
\* (In a pool of one collectable the first and the last are the same.)
C29_FirstOrLast ==
  Rolled =>
    IF Len(gen.collectables) = 1 THEN PickedAt(1)
    ELSE IF UsedUp # {} THEN PickedAt(FirstUsedUp)
    ELSE PickedAt(Len(gen.collectables))

\* C29 as amended: the same, except that with no such place the fallback
\* draws again and returns the collectable at place
\* floor(draw * length of the pool); the result is a member of the pool.
C29_FirstOrRandom ==
  Rolled =>
    /\ \E i \in DOMAIN gen.collectables : PickedAt(i)
    /\ IF Len(gen.collectables) = 1 THEN PickedAt(1)
       ELSE IF UsedUp # {} THEN PickedAt(FirstUsedUp)
       ELSE PickedAt(Floor(FMul(gen.u.cf, FromInt(Len(gen.collectables)))) + 1)

\* a pool of equal weights that add up to less than the largest draw: the
\* fallback picked the first collectable, not the last
C29_Witness ==
  /\ Rolled
  /\ UsedUp = {}
  /\ Len(gen.collectables) > 1
  /\ PickedAt(1)

\* invocation r is an accept at or past its scan for conflicting trades
PastTransfer(r) ==
  reqs[r].op = "accept" /\ reqs[r].pc \in {"conflicts", "cancelling"}

\* C25: while an accept scans for conflicting trades or has CANCELLED
\* writes out, none of its item updates and no COMPLETED update is still
\* out, and it does not cancel the trade it accepted; when it ran alone,
\* the accepted trade is COMPLETED by then and its items have moved.
C25_CancelAfterTransfer ==
  \A r \in Reqs :
    PastTransfer(r) =>
      /\ reqs[r].itemWrites = {}
      /\ \A w \in reqs[r].tradeWrites : w[2] = CANCELLED /\ w[1] # reqs[r].tid
      /\ reqs[r].pc = "conflicts" => reqs[r].tradeWrites = {}
      /\ last.req = r =>
           LET trade == trades[reqs[r].tid]
           IN /\ trade.status = COMPLETED
              /\ \A i \in trade.offeredItemIds : items[i] = trade.toPlayerId
              /\ \A i \in trade.requestedItemIds : items[i] = trade.fromPlayerId

\* an accept that ran alone has moved two items and has the CANCELLED
\* write of the other trade out
C25_Witness ==
  \E r \in Reqs :
    /\ PastTransfer(r)
    /\ last.req = r
    /\ reqs[r].pc = "cancelling"
    /\ reqs[r].tradeWrites # {}
    /\ items # last.items
    /\ trades[reqs[r].tid].status = COMPLETED

\* C23: once an accept has all its item updates and its COMPLETED update
\* back and no other invocation is running, the trade it accepted, whose
\* items it has moved, is not REJECTED or CANCELLED: whatever reject,
\* cancel or accept ran next to it, items move only for a trade that ends
\* COMPLETED.
C23_MovedOnlyIfCompleted ==
  \A r \in Reqs :
    (/\ PastTransfer(r)
     /\ Listed(trades[reqs[r].tid]) # {}
     /\ \A q \in Reqs \ {r} : ~InFlight(q))
    => trades[reqs[r].tid].status \notin {REJECTED, CANCELLED}


\* no two Player records have the same email
UniqueEmails == \A p \in players : \A q \in players : p.email = q.email => p = q

\* C21: no two Player records ever have the same email, and a signup that
\* found a Player record with its email has been answered "User already
\* exists" and has put no record.
C21_UniqueEmail ==
  /\ UniqueEmails
  /\ \A r \in Reqs :
       signups[r].existingPlayers # {} =>
         /\ signups[r].resp = Resp(409, "User already exists", "none")
         /\ signups[r].pc = "idle"
         /\ signups[r].player = NoPlayerRecord

\* C24: an accept that answers with the error of a failed item update or
\* status update of its settlement has changed no item's owner and has
\* left the trade PENDING.
C24_AllOrNothing ==
  (/\ Answered("accept")
   /\ last.resp = Resp(500, "settlement failed", "none"))
  => /\ items = last.items
     /\ trades[last.tid].status = PENDING

====
